---- MODULE Spec2Model ----
(***************************************************************************)
(* A model of the article extractor CLI in its two revisions:              *)
(*   world "A": src/extract_readability.js (fetchHtmlWithBrowser,          *)
(*              saveDebugFiles, extract, parseArgs, entry point)           *)
(*   world "B": src/unnamed/part_000       (extract, entry point)          *)
(* Both scripts are run one after the other on the same command line and   *)
(* against the same outcomes of the external steps (browser launch,        *)
(* navigation, body wait, page HTML, readability result, mkdir, file       *)
(* writes); each world keeps its own file system across runs.              *)
(* Strings are sequences of one-character strings.                         *)
(***************************************************************************)
EXTENDS Integers, Sequences, FiniteSets, TLC

\* ------------------------------------------------------------------ bounds
\* Number of CLI invocations each script performs in one behaviour.
MaxRuns == 2
\* Number of page requests intercepted while one page is alive.
MaxReq == 2

\* ------------------------------------------------------- values and strings
Worlds == {"A", "B"}

\* JavaScript's undefined (Array.prototype.find without a match) and null.
Undefined == <<"<undefined>">>
Null == <<"<null>">>

Url == <<"h", "t", "t", "p", ":", "/", "/", "a", ".", "b", "/", "p">>
Out == <<"o", "u", "t">>
FlagD == <<"-", "d">>
FlagLong == <<"-", "-", "d", "e", "b", "u", "g", "-", "d", "i", "r">>

\* Command lines (process.argv.slice(2)) the scripts are run with.
ArgLists ==
  { <<>>,
    <<Url>>,
    <<Url, FlagD, Out>>,
    <<Url, FlagLong, Out>>,
    <<FlagD, Out, Url>>,
    <<FlagLong, Out, Url>>,
    <<Url, FlagD>>,
    <<Url, FlagD, <<>>>>,
    <<FlagD, Out>> }

\* Paths that can be handed to the file system as a debug directory.
DirPaths == {Url, Out, FlagD, FlagLong}

\* JavaScript truthiness of a string-or-undefined value.
Truthy(x) == x # Undefined /\ x # Null /\ x # <<>>

\* String.prototype.startsWith('-')
StartsWithDash(arg) == Len(arg) >= 1 /\ arg[1] = "-"

IsDebugFlag(arg) == arg = FlagLong \/ arg = FlagD

\* args.find(arg => !arg.startsWith('-'))
FindTargetUrl(a) ==
  IF \E i \in 1..Len(a) : ~StartsWithDash(a[i])
  THEN a[CHOOSE i \in 1..Len(a) :
           /\ ~StartsWithDash(a[i])
           /\ \A j \in 1..(i - 1) : StartsWithDash(a[j])]
  ELSE Undefined

\* args.findIndex(arg => arg === '--debug-dir' || arg === '-d'), 1-based;
\* 0 stands for JavaScript's -1.
FindDebugIndex(a) ==
  IF \E i \in 1..Len(a) : IsDebugFlag(a[i])
  THEN CHOOSE i \in 1..Len(a) :
           /\ IsDebugFlag(a[i])
           /\ \A j \in 1..(i - 1) : ~IsDebugFlag(a[j])
  ELSE 0

\* if (debugIndex !== -1 && args[debugIndex + 1]) debugDir = args[debugIndex + 1]
FindDebugDir(a) ==
  LET i == FindDebugIndex(a)
  IN  IF i # 0 /\ i + 1 <= Len(a) /\ Truthy(a[i + 1]) THEN a[i + 1] ELSE Null

\* Index of the "://" that ends the scheme of u, 0 when there is none.
SchemeEnd(u) ==
  LET Hits == {i \in 2..(Len(u) - 2) :
                 u[i] = ":" /\ u[i + 1] = "/" /\ u[i + 2] = "/"}
  IN  IF Hits = {} THEN 0 ELSE CHOOSE i \in Hits : \A j \in Hits : i <= j

\* Whether the browser / the URL parser accepts u as an absolute URL.
IsValidUrl(u) == SchemeEnd(u) # 0

\* new URL(url).hostname : the characters between "://" and the next "/".
Hostname(u) ==
  LET s == SchemeEnd(u) + 3
      Ends == {i \in s..Len(u) : u[i] = "/"}
      e == IF Ends = {} THEN Len(u) + 1 ELSE CHOOSE i \in Ends : \A j \in Ends : i <= j
  IN  SubSeq(u, s, e - 1)

IsSpace(c) == c = " "

RECURSIVE TrimStart(_)
TrimStart(s) ==
  IF s # <<>> /\ IsSpace(Head(s)) THEN TrimStart(Tail(s)) ELSE s

RECURSIVE TrimEnd(_)
TrimEnd(s) ==
  IF s # <<>> /\ IsSpace(s[Len(s)]) THEN TrimEnd(SubSeq(s, 1, Len(s) - 1)) ELSE s

\* String.prototype.trim()
Trim(s) == TrimEnd(TrimStart(s))

\* ------------------------------------------------------- program constants
\* CONFIG.REMOVE_SELECTORS
REMOVE_SELECTORS ==
  {"script", "style", "noscript", "iframe", "svg", "form", "footer", "nav", "aside"}

\* CONFIG.BLOCK_RESOURCES
BLOCK_RESOURCES ==
  {"image", "stylesheet", "font", "media", "imageset", "object", "beacon", "csp_report"}

\* The selector list written inline in part_000's createCleanDom.
B_REMOVE_SELECTORS ==
  {"script", "style", "noscript", "iframe", "svg", "form", "footer", "nav", "aside"}

\* The resource list written inline in part_000's request handler.
B_BLOCK_RESOURCES ==
  {"image", "stylesheet", "font", "media", "imageset", "object", "beacon", "csp_report"}

\* Names of the debug artifacts, in the order they are written.
FileNames == <<"original.html", "title.txt", "content.txt">>

\* ------------------------------------------------------------ environment
\* Resource types the browser reports for the requests of a page.
ResourceTypes == BLOCK_RESOURCES \cup {"document", "script", "xhr"}

\* A page is the sequence of the tags of its elements.
HtmlSamples ==
  { <<"h1", "p">>,
    <<"script", "h1", "nav", "p", "footer">>,
    <<"style", "noscript", "iframe", "svg", "form", "aside", "p">> }

TitleSamples == { <<>>, <<"T">> }

TextSamples == { <<" ">>, <<"a">>, <<" ", "a", " ", "b", " ">> }

\* What Readability.parse() returns: null, or an article.
NullArticle == [found |-> FALSE, title |-> <<>>, textContent |-> <<>>]

ArticleOutcomes ==
  {NullArticle} \cup
  [found : {TRUE}, title : TitleSamples, textContent : TextSamples]

NoResult == [title |-> <<>>, content |-> <<>>, domain |-> <<>>, url |-> <<>>]

\* The external steps whose outcome the environment decides.
EnvKeys ==
  {"launch", "goto", "wait", "html", "article", "mkdir",
   "original.html", "title.txt", "content.txt"}

EnvDefault ==
  [k \in EnvKeys |->
     IF k = "html" THEN <<>> ELSE IF k = "article" THEN NullArticle ELSE TRUE]

\* ------------------------------------------------------------ file system
NoFiles == [n \in {} |-> <<>>]

NoDir == [exists |-> FALSE, files |-> NoFiles]
EmptyDir == [exists |-> TRUE, files |-> NoFiles]
StaleDir == [exists |-> TRUE, files |-> [n \in {"stale.log"} |-> <<"x">>]]
OldRunDir ==
  [exists |-> TRUE,
   files |-> [n \in {"original.html", "title.txt", "content.txt"} |-> <<"o", "l", "d">>]]

\* The debug directory as a run may find it.
InitialDirs == {NoDir, EmptyDir, StaleDir, OldRunDir}

\* fs.existsSync(d)
ExistsSync(dirs, d) == dirs[d].exists

\* fs.mkdirSync(d, { recursive: true })
MkdirSync(dirs, d) ==
  IF dirs[d].exists THEN dirs ELSE [dirs EXCEPT ![d] = EmptyDir]

\* Mutant of WriteFileSync: a file that exists keeps its content.
WriteFileSync_KeepExisting(dirs, d, name, content) ==
  [dirs EXCEPT ![d].files =
     [n \in (DOMAIN dirs[d].files) \cup {name} |->
        IF n \in DOMAIN dirs[d].files THEN dirs[d].files[n] ELSE content]]

\* fs.writeFileSync(path.join(d, name), content): creates or replaces the file.
WriteFileSync(dirs, d, name, content) ==
  [dirs EXCEPT ![d].files =
     [n \in (DOMAIN dirs[d].files) \cup {name} |->
        IF n = name THEN content ELSE dirs[d].files[n]]]

\* ------------------------------------------------------------ pure helpers
\* Mutant of A_createCleanDom: the selector list misses aside.
A_createCleanDom_KeepsAside(html) ==
  SelectSeq(html, LAMBDA tag : tag \notin (REMOVE_SELECTORS \ {"aside"}))

\* doc.querySelectorAll(CONFIG.REMOVE_SELECTORS).forEach(el => el.remove())
A_createCleanDom(html) ==
  SelectSeq(html, LAMBDA tag : tag \notin REMOVE_SELECTORS)

B_createCleanDom(html) ==
  SelectSeq(html, LAMBDA tag : tag \notin B_REMOVE_SELECTORS)

\* The result object built from the article.
A_ShapeResult(art, url) ==
  [title |-> art.title, content |-> Trim(art.textContent),
   domain |-> Hostname(url), url |-> url]

\* Mutant of B_ShapeResult: the text content is not trimmed.
B_ShapeResult_NoTrim(art, url) ==
  [title |-> art.title, content |-> art.textContent,
   domain |-> Hostname(url), url |-> url]

B_ShapeResult(art, url) ==
  [title |-> art.title, content |-> Trim(art.textContent),
   domain |-> Hostname(url), url |-> url]

\* Mutant of A_Artifacts: original.html gets the sanitized document.
A_Artifacts_CleanHtml(html, res) ==
  << [name |-> "original.html",
      content |-> SelectSeq(html, LAMBDA tag : tag \notin REMOVE_SELECTORS)],
     [name |-> "title.txt", content |-> res.title],
     [name |-> "content.txt", content |-> res.content] >>

\* The artifacts array of saveDebugFiles.
A_Artifacts(html, res) ==
  << [name |-> "original.html", content |-> html],
     [name |-> "title.txt", content |-> res.title],
     [name |-> "content.txt", content |-> res.content] >>

\* The three inline writes of part_000, in order.
B_Artifacts(html, res) ==
  << [name |-> "original.html", content |-> html],
     [name |-> "title.txt", content |-> res.title],
     [name |-> "content.txt", content |-> res.content] >>

\* JSON.stringify(result, null, 2): the members in insertion order.
Stringify(res) ==
  << <<"title", res.title>>, <<"content", res.content>>,
     <<"domain", res.domain>>, <<"url", res.url>> >>

\* The value of member key of a printed JSON text.
JsonField(json, key) ==
  json[CHOOSE i \in 1..Len(json) : json[i][1] = key][2]

\* Mutant of A_OnRequest: the else is missing, a blocked request is also
\* continued.
A_OnRequest_NoElse(type) ==
  IF type \in BLOCK_RESOURCES
  THEN [type |-> type, aborts |-> 1, continues |-> 1]
  ELSE [type |-> type, aborts |-> 0, continues |-> 1]

\* The request handler of extract_readability.js: the request after it ran.
A_OnRequest(type) ==
  IF type \in BLOCK_RESOURCES
  THEN [type |-> type, aborts |-> 1, continues |-> 0]
  ELSE [type |-> type, aborts |-> 0, continues |-> 1]

\* The request handler of part_000.
B_OnRequest(type) ==
  IF type \in B_BLOCK_RESOURCES
  THEN [type |-> type, aborts |-> 1, continues |-> 0]
  ELSE [type |-> type, aborts |-> 0, continues |-> 1]

\* ------------------------------------------------------------------ state
VARIABLES
  run,          \* number of the current invocation, 1..MaxRuns
  world,        \* the script whose process is running: "A" or "B"
  args,         \* process.argv.slice(2) of the current invocation
  env,          \* outcomes of the external steps of this invocation
  asked,        \* the external steps whose outcome is already decided
  fs,           \* per world: the directories on disk
  fsStart,      \* per world: fs when the current invocation started
  outcome,      \* what script A's process of this invocation ended with
  pc,           \* position of the running process
  targetUrl, debugDir,
  browser,      \* "none", "open" or "closed"
  launches,     \* calls of puppeteer.launch in this process
  navigations,  \* calls of page.goto in this process
  interception, \* whether the request handler is installed on the page
  requests,     \* the requests the handler was invoked for, in arrival order
  rawHtml, dom, readerInput, article, result,
  pending,      \* whether a try block is being left by an exception
  failure,      \* the first failure of this process and the steps done by then
  trace,        \* pipeline steps executed by this process, in order
  stdout, stderr,
  exit          \* the exit codes the process ended with (at most one)

harness == <<run, world, args, fsStart, outcome>>
envVars == <<env, asked>>
cli == <<targetUrl, debugDir>>
page == <<browser, launches, navigations, interception, requests>>
data == <<rawHtml, dom, readerInput, article, result>>
ctl == <<pending, failure, trace>>
io == <<stdout, stderr, exit>>
vars == <<harness, envVars, fs, pc, cli, page, data, ctl, io>>

NoFailure == [kind |-> "none", at |-> <<>>]
NoOutcome == [exit |-> <<>>, stdout |-> <<>>, launches |-> 0]

\* A freshly started node process.
FreshProcess ==
  /\ pc = "start"
  /\ targetUrl = Undefined /\ debugDir = Null
  /\ browser = "none" /\ launches = 0 /\ navigations = 0
  /\ interception = FALSE /\ requests = <<>>
  /\ rawHtml = <<>> /\ dom = <<>> /\ readerInput = <<>>
  /\ article = NullArticle /\ result = NoResult
  /\ pending = FALSE /\ failure = NoFailure /\ trace = <<>>
  /\ stdout = <<>> /\ stderr = <<>> /\ exit = <<>>

Init ==
  /\ run = 1 /\ world = "A"
  /\ args \in ArgLists
  /\ env = EnvDefault /\ asked = {}
  /\ \E d \in InitialDirs :
       LET dirs == [p \in DirPaths |-> IF p = Out THEN d ELSE NoDir]
       IN  /\ fs = [w \in Worlds |-> dirs]
           /\ fsStart = [w \in Worlds |-> dirs]
  /\ outcome = NoOutcome
  /\ FreshProcess

\* ------------------------------------------------------- shared shorthands
\* The outcomes an external step can have: the one already decided in this
\* invocation (so that both scripts meet the same environment), or any.
Outcomes(k, domain) == IF k \in asked THEN {env[k]} ELSE domain

Learn(k, v) ==
  /\ env' = [env EXCEPT ![k] = v]
  /\ asked' = asked \cup {k}

\* page.goto rejects a string that is no absolute URL.
GotoOutcomes(url) ==
  IF IsValidUrl(url) THEN Outcomes("goto", BOOLEAN) ELSE {FALSE}

Fail(kind) ==
  failure' = IF failure.kind = "none" THEN [kind |-> kind, at |-> trace'] ELSE failure

Log(msg) == stderr' = Append(stderr, msg)

Step(name) == trace' = Append(trace, name)

WritePc == <<"write1", "write2", "write3">>
WriteStep == <<"writeHtml", "writeTitle", "writeContent">>

\* ------------------------------------ world A: src/extract_readability.js
\* parseArgs() and the two [Debug] lines of the entry point.
A_ParseArgs ==
  /\ world = "A" /\ pc = "start"
  /\ targetUrl' = FindTargetUrl(args)
  /\ debugDir' = FindDebugDir(args)
  /\ stderr' = stderr \o <<"args", "target", "debugdir">>
  /\ pc' = "parsed"
  /\ UNCHANGED <<harness, envVars, fs, page, data, ctl, stdout, exit>>

\* if (!targetUrl) { usage; process.exit(1) } else call extract.
A_CheckUrl ==
  /\ world = "A" /\ pc = "parsed"
  /\ IF ~Truthy(targetUrl)
     THEN /\ Log("usage")
          /\ exit' = <<1>>
          /\ pc' = "exited"
     ELSE /\ pc' = "extract"
          /\ UNCHANGED <<stderr, exit>>
  /\ UNCHANGED <<harness, envVars, fs, cli, page, data, ctl, stdout>>

\* fetchHtmlWithBrowser: puppeteer.launch, outside the try block.
A_Launch ==
  /\ world = "A" /\ pc = "extract"
  /\ Log("launching")
  /\ Step("launch")
  /\ launches' = launches + 1
  /\ \E ok \in Outcomes("launch", BOOLEAN) :
       /\ Learn("launch", ok)
       /\ IF ok
          THEN /\ browser' = "open"
               /\ pc' = "intercept"
               /\ UNCHANGED <<failure, pending>>
          ELSE /\ Fail("launch")
               /\ pending' = TRUE
               /\ pc' = "catch"
               /\ UNCHANGED browser
  /\ UNCHANGED <<harness, fs, cli, navigations, interception, requests, data, stdout, exit>>

\* newPage, setRequestInterception(true), page.on('request'), setUserAgent.
A_Intercept ==
  /\ world = "A" /\ pc = "intercept"
  /\ interception' = TRUE
  /\ Step("intercept")
  /\ pc' = "goto"
  /\ UNCHANGED <<harness, envVars, fs, cli, browser, launches, navigations, requests,
                 data, pending, failure, io>>

\* Mutant of A_Goto: a failed navigation is tried once more.
A_Goto_Retry ==
  /\ world = "A" /\ pc = "goto"
  /\ Log("fetching")
  /\ Step("navigate")
  /\ navigations' = navigations + 1
  /\ \E ok \in GotoOutcomes(targetUrl) :
       /\ Learn("goto", ok)
       /\ IF ok
          THEN /\ pc' = "wait"
               /\ UNCHANGED <<failure, pending>>
          ELSE IF navigations = 0
               THEN /\ pc' = "goto"
                    /\ UNCHANGED <<failure, pending>>
               ELSE /\ Fail("navigation")
                    /\ pending' = TRUE
                    /\ pc' = "finally"
  /\ UNCHANGED <<harness, fs, cli, browser, launches, interception, requests, data,
                 stdout, exit>>

\* page.goto(url, { waitUntil: 'domcontentloaded', timeout: TIMEOUT_MS })
A_Goto ==
  /\ world = "A" /\ pc = "goto"
  /\ Log("fetching")
  /\ Step("navigate")
  /\ navigations' = navigations + 1
  /\ \E ok \in GotoOutcomes(targetUrl) :
       /\ Learn("goto", ok)
       /\ IF ok
          THEN /\ pc' = "wait"
               /\ UNCHANGED <<failure, pending>>
          ELSE /\ Fail("navigation")
               /\ pending' = TRUE
               /\ pc' = "finally"
  /\ UNCHANGED <<harness, fs, cli, browser, launches, interception, requests, data,
                 stdout, exit>>

\* Mutant of A_Wait: the wait's rejection is not caught.
A_Wait_Throws ==
  /\ world = "A" /\ pc = "wait"
  /\ \E ok \in Outcomes("wait", BOOLEAN) :
       /\ Learn("wait", ok)
       /\ IF ok
          THEN /\ pc' = "content"
               /\ UNCHANGED <<failure, pending>>
          ELSE /\ failure' = [kind |-> "wait", at |-> trace]
               /\ pending' = TRUE
               /\ pc' = "finally"
  /\ UNCHANGED <<harness, fs, cli, page, data, trace, io>>

\* try { await page.waitForSelector('body', { timeout: 5000 }) } catch(e) {}
A_Wait ==
  /\ world = "A" /\ pc = "wait"
  /\ \E ok \in Outcomes("wait", BOOLEAN) : Learn("wait", ok)
  /\ pc' = "content"
  /\ UNCHANGED <<harness, fs, cli, page, data, ctl, io>>

\* return await page.content()
A_Content ==
  /\ world = "A" /\ pc = "content"
  /\ \E h \in Outcomes("html", HtmlSamples) :
       /\ Learn("html", h)
       /\ rawHtml' = h
  /\ Step("readHtml")
  /\ pc' = "finally"
  /\ UNCHANGED <<harness, fs, cli, page, dom, readerInput, article, result,
                 pending, failure, io>>

\* finally { await browser.close() } of fetchHtmlWithBrowser.
A_Finally ==
  /\ world = "A" /\ pc = "finally"
  /\ browser' = "closed"
  /\ interception' = FALSE
  /\ pc' = IF pending THEN "catch" ELSE "sanitize"
  /\ UNCHANGED <<harness, envVars, fs, cli, launches, navigations, requests, data,
                 ctl, io>>

\* const dom = createCleanDom(rawHtml, url)
A_Sanitize ==
  /\ world = "A" /\ pc = "sanitize"
  /\ Log("parsing")
  /\ dom' = A_createCleanDom(rawHtml)
  /\ Step("sanitize")
  /\ pc' = "parse"
  /\ UNCHANGED <<harness, envVars, fs, cli, page, rawHtml, readerInput, article, result,
                 pending, failure, stdout, exit>>

\* new Readability(dom.window.document).parse(); if (!article) throw
A_Parse ==
  /\ world = "A" /\ pc = "parse"
  /\ readerInput' = dom
  /\ Step("extract")
  /\ \E art \in Outcomes("article", ArticleOutcomes) :
       /\ Learn("article", art)
       /\ article' = art
       /\ IF art.found
          THEN /\ pc' = "shape"
               /\ UNCHANGED <<failure, pending>>
          ELSE /\ Fail("extraction")
               /\ pending' = TRUE
               /\ pc' = "catch"
  /\ UNCHANGED <<harness, fs, cli, page, rawHtml, dom, result, io>>

\* const result = { title, content, domain, url }; if (debugDir) saveDebugFiles
A_Shape ==
  /\ world = "A" /\ pc = "shape"
  /\ result' = A_ShapeResult(article, targetUrl)
  /\ Step("shape")
  /\ pc' = IF Truthy(debugDir) THEN "save" ELSE "return"
  /\ UNCHANGED <<harness, envVars, fs, cli, page, rawHtml, dom, readerInput, article,
                 pending, failure, io>>

\* saveDebugFiles: if (!fs.existsSync(debugDir)) fs.mkdirSync(debugDir, ...)
A_SaveMkdir ==
  /\ world = "A" /\ pc = "save"
  /\ IF ExistsSync(fs["A"], debugDir)
     THEN /\ pc' = WritePc[1]
          /\ UNCHANGED <<envVars, fs, failure, pending>>
     ELSE \E ok \in Outcomes("mkdir", BOOLEAN) :
            /\ Learn("mkdir", ok)
            /\ IF ok
               THEN /\ fs' = [fs EXCEPT !["A"] = MkdirSync(fs["A"], debugDir)]
                    /\ pc' = WritePc[1]
                    /\ UNCHANGED <<failure, pending>>
               ELSE /\ failure' = IF failure.kind = "none"
                                  THEN [kind |-> "filesystem", at |-> trace]
                                  ELSE failure
                    /\ pending' = TRUE
                    /\ pc' = "catch"
                    /\ UNCHANGED fs
  /\ UNCHANGED <<harness, cli, page, data, trace, io>>

\* artifacts.forEach: fs.writeFileSync(path.join(debugDir, name), content)
A_WriteArtifact(i) ==
  /\ world = "A" /\ pc = WritePc[i]
  /\ Step(WriteStep[i])
  /\ LET a == A_Artifacts(rawHtml, result)[i]
     IN  \E ok \in Outcomes(a.name, BOOLEAN) :
           /\ Learn(a.name, ok)
           /\ IF ok
              THEN /\ fs' = [fs EXCEPT !["A"] =
                                WriteFileSync(fs["A"], debugDir, a.name, a.content)]
                   /\ Log("saved")
                   /\ pc' = IF i < 3 THEN WritePc[i + 1] ELSE "return"
                   /\ UNCHANGED <<failure, pending>>
              ELSE /\ Fail("filesystem")
                   /\ pending' = TRUE
                   /\ pc' = "catch"
                   /\ UNCHANGED <<fs, stderr>>
  /\ UNCHANGED <<harness, cli, page, data, stdout, exit>>

\* console.log(JSON.stringify(result, null, 2))
A_MainPrint ==
  /\ world = "A" /\ pc = "return"
  /\ stdout' = Stringify(result)
  /\ Step("print")
  /\ pc' = "printed"
  /\ UNCHANGED <<harness, envVars, fs, cli, page, data, pending, failure, stderr, exit>>

\* The async main function returns and node ends the process with code 0.
A_ProcessEnd ==
  /\ world = "A" /\ pc = "printed"
  /\ exit' = <<0>>
  /\ pc' = "exited"
  /\ UNCHANGED <<harness, envVars, fs, cli, page, data, ctl, stdout, stderr>>

\* Mutant of A_MainCatch: the error is logged and process.exit(1) is missing.
A_MainCatch_NoExitCode ==
  /\ world = "A" /\ pc = "catch"
  /\ Log("failed")
  /\ exit' = <<0>>
  /\ pc' = "exited"
  /\ UNCHANGED <<harness, envVars, fs, cli, page, data, ctl, stdout>>

\* catch (err) { console.error('Failed:', err.message); process.exit(1) }
A_MainCatch ==
  /\ world = "A" /\ pc = "catch"
  /\ Log("failed")
  /\ exit' = <<1>>
  /\ pc' = "exited"
  /\ UNCHANGED <<harness, envVars, fs, cli, page, data, ctl, stdout>>

\* --------------------------------------- world B: src/unnamed/part_000
\* Entry point: the argument parsing written inline.
B_ParseArgs ==
  /\ world = "B" /\ pc = "start"
  /\ targetUrl' = FindTargetUrl(args)
  /\ debugDir' = FindDebugDir(args)
  /\ stderr' = stderr \o <<"args">>
  /\ pc' = "parsed"
  /\ UNCHANGED <<harness, envVars, fs, page, data, ctl, stdout, exit>>

\* if (!targetUrl) { usage; process.exit(1) } else call extract.
B_CheckUrl ==
  /\ world = "B" /\ pc = "parsed"
  /\ IF ~Truthy(targetUrl)
     THEN /\ Log("usage")
          /\ exit' = <<1>>
          /\ pc' = "exited"
     ELSE /\ pc' = "extract"
          /\ UNCHANGED <<stderr, exit>>
  /\ UNCHANGED <<harness, envVars, fs, cli, page, data, ctl, stdout>>

\* if (debugDir && !fs.existsSync(debugDir)) fs.mkdirSync(debugDir, ...)
B_Prepare ==
  /\ world = "B" /\ pc = "extract"
  /\ IF ~Truthy(debugDir) \/ ExistsSync(fs["B"], debugDir)
     THEN /\ pc' = "launch"
          /\ UNCHANGED <<envVars, fs, failure, pending>>
     ELSE \E ok \in Outcomes("mkdir", BOOLEAN) :
            /\ Learn("mkdir", ok)
            /\ IF ok
               THEN /\ fs' = [fs EXCEPT !["B"] = MkdirSync(fs["B"], debugDir)]
                    /\ pc' = "launch"
                    /\ UNCHANGED <<failure, pending>>
               ELSE /\ failure' = IF failure.kind = "none"
                                  THEN [kind |-> "filesystem", at |-> trace]
                                  ELSE failure
                    /\ pending' = TRUE
                    /\ pc' = "finally"
                    /\ UNCHANGED fs
  /\ UNCHANGED <<harness, cli, page, data, trace, io>>

\* browser = await puppeteer.launch(...), inside the try block.
B_Launch ==
  /\ world = "B" /\ pc = "launch"
  /\ Log("launching")
  /\ Step("launch")
  /\ launches' = launches + 1
  /\ \E ok \in Outcomes("launch", BOOLEAN) :
       /\ Learn("launch", ok)
       /\ IF ok
          THEN /\ browser' = "open"
               /\ pc' = "intercept"
               /\ UNCHANGED <<failure, pending>>
          ELSE /\ Fail("launch")
               /\ pending' = TRUE
               /\ pc' = "finally"
               /\ UNCHANGED browser
  /\ UNCHANGED <<harness, fs, cli, navigations, interception, requests, data, stdout, exit>>

\* newPage, setRequestInterception(true), page.on('request'), setUserAgent.
B_Intercept ==
  /\ world = "B" /\ pc = "intercept"
  /\ interception' = TRUE
  /\ Step("intercept")
  /\ pc' = "goto"
  /\ UNCHANGED <<harness, envVars, fs, cli, browser, launches, navigations, requests,
                 data, pending, failure, io>>

\* page.goto(url, { waitUntil: 'domcontentloaded', timeout: TIMEOUT_MS })
B_Goto ==
  /\ world = "B" /\ pc = "goto"
  /\ Log("fetching")
  /\ Step("navigate")
  /\ navigations' = navigations + 1
  /\ \E ok \in GotoOutcomes(targetUrl) :
       /\ Learn("goto", ok)
       /\ IF ok
          THEN /\ pc' = "wait"
               /\ UNCHANGED <<failure, pending>>
          ELSE /\ Fail("navigation")
               /\ pending' = TRUE
               /\ pc' = "finally"
  /\ UNCHANGED <<harness, fs, cli, browser, launches, interception, requests, data,
                 stdout, exit>>

\* try { await page.waitForSelector('body', { timeout: 5000 }) } catch(e) {}
B_Wait ==
  /\ world = "B" /\ pc = "wait"
  /\ \E ok \in Outcomes("wait", BOOLEAN) : Learn("wait", ok)
  /\ pc' = "content"
  /\ UNCHANGED <<harness, fs, cli, page, data, ctl, io>>

\* const rawHtml = await page.content()
B_Content ==
  /\ world = "B" /\ pc = "content"
  /\ \E h \in Outcomes("html", HtmlSamples) :
       /\ Learn("html", h)
       /\ rawHtml' = h
  /\ Step("readHtml")
  /\ pc' = "sanitize"
  /\ UNCHANGED <<harness, fs, cli, page, dom, readerInput, article, result,
                 pending, failure, io>>

\* const dom = createCleanDom(rawHtml, url)
B_Sanitize ==
  /\ world = "B" /\ pc = "sanitize"
  /\ Log("parsing")
  /\ dom' = B_createCleanDom(rawHtml)
  /\ Step("sanitize")
  /\ pc' = "parse"
  /\ UNCHANGED <<harness, envVars, fs, cli, page, rawHtml, readerInput, article, result,
                 pending, failure, stdout, exit>>

\* new Readability(dom.window.document).parse(); if (!article) throw
B_Parse ==
  /\ world = "B" /\ pc = "parse"
  /\ readerInput' = dom
  /\ Step("extract")
  /\ \E art \in Outcomes("article", ArticleOutcomes) :
       /\ Learn("article", art)
       /\ article' = art
       /\ IF art.found
          THEN /\ pc' = "shape"
               /\ UNCHANGED <<failure, pending>>
          ELSE /\ Fail("extraction")
               /\ pending' = TRUE
               /\ pc' = "finally"
  /\ UNCHANGED <<harness, fs, cli, page, rawHtml, dom, result, io>>

\* const result = { title, content, domain, url }; if (debugDir) { writes }
B_Shape ==
  /\ world = "B" /\ pc = "shape"
  /\ result' = B_ShapeResult(article, targetUrl)
  /\ Step("shape")
  /\ pc' = IF Truthy(debugDir) THEN WritePc[1] ELSE "finally"
  /\ UNCHANGED <<harness, envVars, fs, cli, page, rawHtml, dom, readerInput, article,
                 pending, failure, io>>

\* fs.writeFileSync(htmlPath | titlePath | contentPath, ...)
B_WriteArtifact(i) ==
  /\ world = "B" /\ pc = WritePc[i]
  /\ Step(WriteStep[i])
  /\ LET a == B_Artifacts(rawHtml, result)[i]
     IN  \E ok \in Outcomes(a.name, BOOLEAN) :
           /\ Learn(a.name, ok)
           /\ IF ok
              THEN /\ fs' = [fs EXCEPT !["B"] =
                                WriteFileSync(fs["B"], debugDir, a.name, a.content)]
                   /\ Log("saved")
                   /\ pc' = IF i < 3 THEN WritePc[i + 1] ELSE "finally"
                   /\ UNCHANGED <<failure, pending>>
              ELSE /\ Fail("filesystem")
                   /\ pending' = TRUE
                   /\ pc' = "finally"
                   /\ UNCHANGED <<fs, stderr>>
  /\ UNCHANGED <<harness, cli, page, data, stdout, exit>>

\* Mutant of B_Finally: the browser is closed at the end of the try block,
\* so only when nothing was thrown.
B_Finally_CloseOnSuccessOnly ==
  /\ world = "B" /\ pc = "finally"
  /\ IF browser = "open" /\ ~pending
     THEN /\ browser' = "closed"
          /\ interception' = FALSE
     ELSE UNCHANGED <<browser, interception>>
  /\ pc' = IF pending THEN "catch" ELSE "return"
  /\ UNCHANGED <<harness, envVars, fs, cli, launches, navigations, requests, data,
                 ctl, io>>

\* finally { if (browser) await browser.close() }
B_Finally ==
  /\ world = "B" /\ pc = "finally"
  /\ IF browser = "open"
     THEN /\ browser' = "closed"
          /\ interception' = FALSE
     ELSE UNCHANGED <<browser, interception>>
  /\ pc' = IF pending THEN "catch" ELSE "return"
  /\ UNCHANGED <<harness, envVars, fs, cli, launches, navigations, requests, data,
                 ctl, io>>

\* console.log(JSON.stringify(result, null, 2))
B_MainPrint ==
  /\ world = "B" /\ pc = "return"
  /\ stdout' = Stringify(result)
  /\ Step("print")
  /\ pc' = "printed"
  /\ UNCHANGED <<harness, envVars, fs, cli, page, data, pending, failure, stderr, exit>>

\* The async main function returns and node ends the process with code 0.
B_ProcessEnd ==
  /\ world = "B" /\ pc = "printed"
  /\ exit' = <<0>>
  /\ pc' = "exited"
  /\ UNCHANGED <<harness, envVars, fs, cli, page, data, ctl, stdout, stderr>>

\* catch (err) { console.error('Failed:', err.message); process.exit(1) }
B_MainCatch ==
  /\ world = "B" /\ pc = "catch"
  /\ Log("failed")
  /\ exit' = <<1>>
  /\ pc' = "exited"
  /\ UNCHANGED <<harness, envVars, fs, cli, page, data, ctl, stdout>>

\* ------------------------------------------------------ request interception
\* page.on('request', ...) of extract_readability.js fires for one request
\* while the script awaits the page.
A_RequestEvent ==
  /\ world = "A" /\ interception /\ browser = "open"
  /\ pc \in {"goto", "wait", "content"}
  /\ Len(requests) < MaxReq
  /\ \E t \in ResourceTypes : requests' = Append(requests, A_OnRequest(t))
  /\ UNCHANGED <<harness, envVars, fs, pc, cli, browser, launches, navigations,
                 interception, data, ctl, io>>

\* page.on('request', ...) of part_000 fires for one request.
B_RequestEvent ==
  /\ world = "B" /\ interception /\ browser = "open"
  /\ pc \in {"goto", "wait", "content"}
  /\ Len(requests) < MaxReq
  /\ \E t \in ResourceTypes : requests' = Append(requests, B_OnRequest(t))
  /\ UNCHANGED <<harness, envVars, fs, pc, cli, browser, launches, navigations,
                 interception, data, ctl, io>>

\* ------------------------------------------------------------ invocations
StartProcess ==
  /\ pc' = "start"
  /\ targetUrl' = Undefined /\ debugDir' = Null
  /\ browser' = "none" /\ launches' = 0 /\ navigations' = 0
  /\ interception' = FALSE /\ requests' = <<>>
  /\ rawHtml' = <<>> /\ dom' = <<>> /\ readerInput' = <<>>
  /\ article' = NullArticle /\ result' = NoResult
  /\ pending' = FALSE /\ failure' = NoFailure /\ trace' = <<>>
  /\ stdout' = <<>> /\ stderr' = <<>> /\ exit' = <<>>

\* Script A's process has ended; script B is started on the same command
\* line, in its own world, against the same environment.
RunOther ==
  /\ world = "A" /\ pc = "exited"
  /\ outcome' = [exit |-> exit, stdout |-> stdout, launches |-> launches]
  /\ world' = "B"
  /\ StartProcess
  /\ UNCHANGED <<run, args, fsStart, envVars, fs>>

\* Both processes have ended; the tool is invoked again.
NextRun ==
  /\ world = "B" /\ pc = "exited"
  /\ run < MaxRuns
  /\ run' = run + 1
  /\ world' = "A"
  /\ args' \in ArgLists
  /\ env' = EnvDefault /\ asked' = {}
  /\ fsStart' = fs
  /\ outcome' = NoOutcome
  /\ StartProcess
  /\ UNCHANGED fs

NextA ==
  \/ A_ParseArgs \/ A_CheckUrl \/ A_Launch \/ A_Intercept \/ A_Goto \/ A_Wait
  \/ A_Content \/ A_Finally \/ A_Sanitize \/ A_Parse \/ A_Shape \/ A_SaveMkdir
  \/ \E i \in 1..3 : A_WriteArtifact(i)
  \/ A_MainPrint \/ A_ProcessEnd \/ A_MainCatch

NextB ==
  \/ B_ParseArgs \/ B_CheckUrl \/ B_Prepare \/ B_Launch \/ B_Intercept \/ B_Goto
  \/ B_Wait \/ B_Content \/ B_Sanitize \/ B_Parse \/ B_Shape
  \/ \E i \in 1..3 : B_WriteArtifact(i)
  \/ B_Finally \/ B_MainPrint \/ B_ProcessEnd \/ B_MainCatch

\* The request handler reads and changes nothing but the request it is given,
\* so request events are explored on their own, in ReqSpec below.
Next == NextA \/ NextB \/ RunOther \/ NextRun

Spec == Init /\ [][Next]_vars

\* The page of a run with its request handler installed, during navigation:
\* only request events happen.
InitReq ==
  /\ run = 1 /\ world \in Worlds
  /\ args = <<Url>>
  /\ env = EnvDefault /\ asked = {}
  /\ LET dirs == [p \in DirPaths |-> NoDir]
     IN  /\ fs = [w \in Worlds |-> dirs]
         /\ fsStart = [w \in Worlds |-> dirs]
  /\ outcome = NoOutcome
  /\ pc = "goto"
  /\ targetUrl = Url /\ debugDir = Null
  /\ browser = "open" /\ launches = 1 /\ navigations = 0
  /\ interception = TRUE /\ requests = <<>>
  /\ rawHtml = <<>> /\ dom = <<>> /\ readerInput = <<>>
  /\ article = NullArticle /\ result = NoResult
  /\ pending = FALSE /\ failure = NoFailure
  /\ trace = <<"launch", "intercept">>
  /\ stdout = <<>> /\ stderr = <<>> /\ exit = <<>>

NextReq == A_RequestEvent \/ B_RequestEvent

ReqSpec == InitReq /\ [][NextReq]_vars

\* ------------------------------------------------------------ properties
Exited == exit # <<>>

InTrace(name) == \E i \in 1..Len(trace) : trace[i] = name

\* The last line written to standard error.
LastStderr == IF stderr = <<>> THEN "" ELSE stderr[Len(stderr)]

\* The run was started with a debug directory and ended with exit code 0.
DebugRunSucceeded == exit = <<0>> /\ Truthy(debugDir)

ThreeFiles == {"original.html", "title.txt", "content.txt"}

\* C1: once the browser has been launched it is closed on every exit path
\* of extract, and the process never exits (code 0 or 1) while a launched
\* browser is still open.
C1_BrowserClosedOnEveryExit ==
  /\ Exited => browser # "open"
  /\ pc \in {"return", "catch", "printed", "exited"} => browser # "open"
  /\ (Exited /\ "launch" \in asked /\ env["launch"] /\ launches > 0)
       => browser = "closed"

\* A run of part_000 that failed while writing a debug file, after the
\* browser was launched, has exited with the browser closed.
C1_Witness ==
  /\ world = "B" /\ exit = <<1>>
  /\ failure.kind = "filesystem" /\ launches = 1
  /\ browser = "closed"

\* C2: a run ends with exit code 0 and the JSON record on standard output,
\* or with exit code 1, an error message on standard error and nothing on
\* standard output; JSON is on standard output iff the exit code is 0; a run
\* without URL exits 1 with the usage message; a run that has not ended can
\* take a step.
C2_ExactlyOneOutcome ==
  /\ Len(exit) <= 1
  /\ Exited =>
       \/ /\ exit = <<0>>
          /\ stdout # <<>> /\ stdout = Stringify(result)
          /\ ~(\E i \in 1..Len(stderr) : stderr[i] \in {"usage", "failed"})
       \/ /\ exit = <<1>>
          /\ stdout = <<>>
          /\ LastStderr \in {"usage", "failed"}
  /\ stdout # <<>> => exit \in {<<>>, <<0>>}
  /\ (Exited /\ ~Truthy(FindTargetUrl(args)))
       => (exit = <<1>> /\ LastStderr = "usage" /\ launches = 0)
  /\ ~Exited => ENABLED (NextA \/ NextB)

\* A run has ended with code 0 and the JSON record printed.
C2_Witness ==
  /\ exit = <<0>> /\ stdout # <<>>
  /\ JsonField(stdout, "url") = Url

\* C3: a navigation failure, an extraction failure and a file system
\* failure are terminal: no pipeline step runs after the failure, the browser
\* is launched at most once and the URL navigated to at most once, and the
\* run ends with exit code 1 and nothing on standard output.
C3_FailureIsTerminal ==
  /\ launches <= 1 /\ navigations <= 1
  /\ failure.kind \in {"navigation", "extraction", "filesystem"} =>
       /\ trace = failure.at
       /\ stdout = <<>>
       /\ exit \in {<<>>, <<1>>}
       /\ pc \in {"finally", "catch", "exited"}
       /\ pc = "exited" => exit = <<1>>

\* A run has ended after the readability parser returned no article.
C3_Witness ==
  /\ failure.kind = "extraction"
  /\ exit = <<1>> /\ stdout = <<>>
  /\ trace = <<"launch", "intercept", "navigate", "readHtml", "sanitize", "extract">>

\* C4 as stated: a run with a debug directory that exits 0 leaves exactly
\* the three files in it, each non-empty, title.txt and content.txt equal to
\* the fields of the printed JSON and original.html the raw HTML.
C4_ExactlyThreeNonEmptyFiles ==
  DebugRunSucceeded =>
    LET d == fs[world][debugDir]
    IN  /\ d.exists
        /\ DOMAIN d.files = ThreeFiles
        /\ \A n \in ThreeFiles : d.files[n] # <<>>
        /\ d.files["title.txt"] = JsonField(stdout, "title")
        /\ d.files["content.txt"] = JsonField(stdout, "content")
        /\ d.files["original.html"] = rawHtml

\* C4 amended: a run with a debug directory that exits 0 leaves the three
\* files in it, next to the files the directory already held; title.txt and
\* content.txt equal the title and content fields of the printed JSON (and
\* are empty exactly when the field is empty), and original.html is the raw
\* HTML the browser returned, not the sanitized document.
C4_DebugFilesMatchOutput ==
  DebugRunSucceeded =>
    LET d == fs[world][debugDir]
        before == fsStart[world][debugDir]
    IN  /\ d.exists
        /\ DOMAIN d.files = ThreeFiles \cup DOMAIN before.files
        /\ \A n \in DOMAIN before.files \ ThreeFiles : d.files[n] = before.files[n]
        /\ d.files["title.txt"] = JsonField(stdout, "title")
        /\ d.files["content.txt"] = JsonField(stdout, "content")
        /\ d.files["original.html"] = env["html"]
        /\ d.files["original.html"] = rawHtml

\* A successful debug run whose title is empty, in a directory that held
\* another file, with a page that had tags for the sanitizer to remove.
C4_Witness ==
  /\ DebugRunSucceeded
  /\ JsonField(stdout, "title") = <<>>
  /\ "stale.log" \in DOMAIN fs[world][debugDir].files
  /\ dom # rawHtml

\* C5: persisting creates the directory when absent and overwrites the
\* files of a prior run: after a successful debug run the three files hold
\* this run's artifacts whatever the directory held before, no other
\* directory is touched, and a run that finds its own artifacts already in
\* place leaves the file system as it found it.
C5_OverwriteAndIdempotent ==
  DebugRunSucceeded =>
    LET after == fs[world]
        before == fsStart[world]
        mine == [n \in ThreeFiles |->
                   IF n = "original.html" THEN rawHtml
                   ELSE IF n = "title.txt" THEN result.title ELSE result.content]
    IN  /\ after[debugDir].exists
        /\ \A n \in ThreeFiles :
             n \in DOMAIN after[debugDir].files /\ after[debugDir].files[n] = mine[n]
        /\ \A p \in DirPaths \ {debugDir} : after[p] = before[p]
        /\ (/\ before[debugDir].exists
            /\ ThreeFiles \subseteq DOMAIN before[debugDir].files
            /\ \A n \in ThreeFiles : before[debugDir].files[n] = mine[n])
             => after = before

\* The second of two successful debug runs into the same directory, which
\* replaced files of the first run that held something else.
C5_Witness ==
  /\ DebugRunSucceeded /\ run = 2
  /\ fsStart[world][debugDir].exists
  /\ ThreeFiles \subseteq DOMAIN fsStart[world][debugDir].files
  /\ fsStart[world][debugDir].files["title.txt"] # result.title
  /\ fsStart[world][debugDir].files["title.txt"] # <<"o", "l", "d">>
  /\ fs[world][debugDir].files["title.txt"] = result.title

\* C6: every intercepted request got exactly one decision, abort or
\* continue; it was aborted iff its resource type is one of the eight blocked
\* types; two requests of the same type got the same decision wherever they
\* arrived among the others.
C6_OneDecisionPerRequest ==
  \A i \in 1..Len(requests) :
    LET r == requests[i]
    IN  /\ r.aborts + r.continues = 1
        /\ r.aborts = 1 <=>
             r.type \in {"image", "stylesheet", "font", "media", "imageset",
                         "object", "beacon", "csp_report"}
        /\ \A j \in 1..Len(requests) :
             requests[j].type = r.type =>
               (requests[j].aborts = r.aborts /\ requests[j].continues = r.continues)

\* A blocked request was aborted after a passing one was continued.
C6_Witness ==
  /\ Len(requests) = 2
  /\ requests[1].type = "document" /\ requests[1].continues = 1
  /\ requests[2].type = "font" /\ requests[2].aborts = 1

Canon ==
  <<"launch", "intercept", "navigate", "readHtml", "sanitize", "extract", "shape",
    "writeHtml", "writeTitle", "writeContent", "print">>

CanonIndex(name) == CHOOSE i \in 1..Len(Canon) : Canon[i] = name

\* C7: the pipeline steps of a run happen in the order launch, install
\* interception, navigate, read HTML, sanitize, extract, shape, write debug
\* files, print JSON, none skipped (the writes only without debug directory)
\* and none twice; the document given to the readability parser holds none of
\* the nine removed tags; debug files are written only after extraction
\* succeeded.
C7_StepsInOrder ==
  /\ \A i \in 1..Len(trace) : \E k \in 1..Len(Canon) : Canon[k] = trace[i]
  /\ trace # <<>> => trace[1] = "launch"
  /\ \A i \in 1..(Len(trace) - 1) :
       \/ CanonIndex(trace[i + 1]) = CanonIndex(trace[i]) + 1
       \/ trace[i] = "shape" /\ trace[i + 1] = "print" /\ ~Truthy(debugDir)
  /\ InTrace("extract") =>
       /\ \A k \in 1..Len(readerInput) :
            readerInput[k] \notin {"script", "style", "noscript", "iframe", "svg",
                                   "form", "footer", "nav", "aside"}
       /\ readerInput =
            SelectSeq(rawHtml, LAMBDA t :
              t \notin {"script", "style", "noscript", "iframe", "svg",
                        "form", "footer", "nav", "aside"})
  /\ (InTrace("writeHtml") \/ InTrace("writeTitle") \/ InTrace("writeContent"))
       => (article.found /\ InTrace("extract") /\ InTrace("shape"))

\* A debug run went through all the steps on a page with removable tags.
C7_Witness ==
  /\ trace = Canon
  /\ Len(readerInput) < Len(rawHtml)

\* Script B's process has ended on the command line and environment script
\* A's process ended on, both having started from the same file system.
BothEnded ==
  world = "B" /\ pc = "exited" /\ fsStart["A"] = fsStart["B"]

\* Existence and file names of every directory.
DirState(dirs) ==
  [p \in DirPaths |-> [exists |-> dirs[p].exists, names |-> DOMAIN dirs[p].files]]

\* C8 as stated: both scripts end with the same exit code, the same
\* standard output and the same debug directory state, and launch the browser
\* in the same cases.
C8_ObservablyEquivalent ==
  BothEnded =>
    /\ exit = outcome.exit
    /\ stdout = outcome.stdout
    /\ DirState(fs["A"]) = DirState(fs["B"])
    /\ launches = outcome.launches

\* C8 amended: both scripts end with the same exit code and the same
\* standard output, and after a run that exits 0 with the same file system;
\* after a failed run the only difference on disk is that part_000 may have
\* created the (empty) debug directory that extract_readability.js did not,
\* and the browser launches differ only when creating that directory failed:
\* then part_000 has not launched the browser and extract_readability.js has.
C8_EquivalentUpToDirectory ==
  BothEnded =>
    /\ exit = outcome.exit
    /\ stdout = outcome.stdout
    /\ exit = <<0>> => fs["A"] = fs["B"]
    /\ \A p \in DirPaths :
         \/ fs["A"][p] = fs["B"][p]
         \/ /\ exit = <<1>> /\ p = debugDir
            /\ ~fs["A"][p].exists /\ fs["B"][p] = EmptyDir
    /\ launches # outcome.launches =>
         /\ launches = 0 /\ outcome.launches = 1
         /\ failure.kind = "filesystem"
         /\ "mkdir" \in asked /\ ~env["mkdir"]

\* Both scripts failed on a navigation error; only part_000 has created the
\* debug directory.
C8_Witness ==
  /\ BothEnded /\ exit = <<1>>
  /\ failure.kind = "navigation"
  /\ Truthy(debugDir)
  /\ fs["B"][debugDir].exists /\ ~fs["A"][debugDir].exists

\* The fetch (browser launch up to reading the page HTML) was started and
\* ended without the HTML.
FetchFailed ==
  /\ launches > 0
  /\ ~InTrace("readHtml")
  /\ pc \in {"finally", "catch", "exited"}

NavigationFailed == navigations = 1 /\ "goto" \in asked /\ ~env["goto"]

LaunchFailed == "launch" \in asked /\ ~env["launch"]

\* Whatever the body wait ended with, a run whose navigation succeeded goes
\* on to read the page HTML.
WaitIsIgnored ==
  (navigations = 1 /\ "goto" \in asked /\ env["goto"])
    => (pc \in {"wait", "content"} \/ InTrace("readHtml"))

UrlArgs(a) == {i \in 1..Len(a) : IsValidUrl(a[i])}

\* C10: when the argument list holds one URL and a debug flag followed by
\* a directory value, in any order, parsing selects the URL as target URL and
\* the value after the flag as debug directory, and never the same argument
\* as both.
C10_ParseSelectsUrlAndDir ==
  (/\ pc # "start"
   /\ Cardinality(UrlArgs(args)) = 1
   /\ \E i \in 1..(Len(args) - 1) :
        IsDebugFlag(args[i]) /\ Truthy(args[i + 1]) /\ ~IsValidUrl(args[i + 1]))
    => LET u == CHOOSE i \in UrlArgs(args) : TRUE
           f == CHOOSE i \in 1..(Len(args) - 1) : IsDebugFlag(args[i])
       IN  /\ targetUrl = args[u]
           /\ debugDir = args[f + 1]
           /\ targetUrl # debugDir
====
